---- MODULE Spec2Model ----
(***************************************************************************)
(* ProText (src/protext.py): the line buffer, the cursor and the viewport  *)
(* of the editor, and the key handlers of Editor.run that act on them.     *)
(*                                                                         *)
(* A Python str is a sequence of one-character strings; a Python list of   *)
(* lines is a sequence of such sequences.  Rows and columns are zero-based *)
(* as in the source, so row y of the buffer is lines[y + 1].               *)
(* A status message is a tuple whose first element names the message; the  *)
(* text formatted into it (the search term) is left out, the replacement   *)
(* count is kept.                                                          *)
(***************************************************************************)
EXTENDS Integers, Sequences, FiniteSets, TLC

\* ------------------------------------------------------------------ bounds

\* Longest document, counted as the length of "\n".join(lines).
MaxDoc == 2
\* Largest terminal height (the smallest modelled is 2).
MaxH == 3
\* Longest document Enter is pressed on where its undoing is checked.
MaxUndoDoc == 5
\* Longest document replace_all may leave where it is checked on its own.
MaxReplaced == 11

Chars == {"a", "b"}
FindChars == {"a", "b", "c"}
NL == "\n"

\* prompt_input's None (Escape); no string of characters equals it.
None == <<"None">>

Min(a, b) == IF a < b THEN a ELSE b
Max(a, b) == IF a > b THEN a ELSE b

\* All strings over S of length at most n.
Strs(S, n) == UNION {[1..k -> S] : k \in 0..n}

\* The non-empty terms typed into the find prompts, and the replacements.
Terms == {<<"a">>, <<"b">>, <<"a", "b">>}
Replacements == {<<>>, <<"b">>, <<"a", "a">>}
FindTerms == {<<"a">>, <<"b">>, <<"c">>}
FileContents == Strs(Chars \cup {NL}, MaxDoc)
\* The files of the search-only specification: two lines, each terminated.
FindLines == {<<"a", "b">>, <<"c", "b">>, <<"c">>}
FindContents == {l1 \o <<NL>> \o l2 \o <<NL>> : l1 \in FindLines, l2 \in FindLines}
\* The files, search terms and replacements replace_all is checked on.
ReplaceContents ==
    {<<"a", "a", "a", NL, "x", "a", "x", NL>>,
     <<"a", "b", "a", NL>>,
     <<"x", "a", "a", NL, NL, "a", "a", "a", "a">>}
ReplaceFinds == {<<"a">>, <<"a", "a">>, <<"b", "b">>}
ReplaceWiths == {<<>>, <<"b", "b">>, <<"a">>, <<"a", "b">>}
\* A file whose lines can be split in the middle.
UndoContents == {<<"a", "b", NL, "b", "a">>}
Heights == 2..MaxH
Widths == {2, 3}

\* ------------------------------------------------- Python str and list

\* s[i:j] for 0 <= i, 0 <= j: indices past the end are clamped.
Slice(s, i, j) == SubSeq(s, Min(i, Len(s)) + 1, Min(j, Len(s)))
\* s[i:]
SliceFrom(s, i) == Slice(s, i, Len(s))
\* s[:j]
SliceTo(s, j) == Slice(s, 0, j)

\* l.pop(i) leaves this list; l.insert(i, v) leaves that one.
ListPop(l, i) == SubSeq(l, 1, i) \o SubSeq(l, i + 2, Len(l))
ListInsert(l, i, v) == SubSeq(l, 1, i) \o <<v>> \o SubSeq(l, i + 1, Len(l))
SetLine(l, y, v) == [l EXCEPT ![y + 1] = v]

\* s.find(t, start): the lowest index >= start where t occurs in s, or -1.
RECURSIVE StrFind(_, _, _)
StrFind(s, t, start) ==
    IF start + Len(t) > Len(s) THEN -1
    ELSE IF SubSeq(s, start + 1, start + Len(t)) = t THEN start
    ELSE StrFind(s, t, start + 1)

\* t in s
StrIn(t, s) == StrFind(s, t, 0) # -1

\* Mutant of StrReplace: only the first occurrence is replaced.
StrReplaceOnce(s, t, r) ==
    LET k == StrFind(s, t, 0)
    IN IF k = -1 THEN s
       ELSE SubSeq(s, 1, k) \o r \o SubSeq(s, k + Len(t) + 1, Len(s))

\* s.replace(t, r) for a non-empty t: left to right, non-overlapping.
RECURSIVE StrReplace(_, _, _)
StrReplace(s, t, r) ==
    IF Len(s) < Len(t) THEN s
    ELSE IF SubSeq(s, 1, Len(t)) = t
         THEN r \o StrReplace(SubSeq(s, Len(t) + 1, Len(s)), t, r)
         ELSE <<Head(s)>> \o StrReplace(Tail(s), t, r)

\* s.count(t) for a non-empty t: non-overlapping occurrences.
RECURSIVE StrCount(_, _)
StrCount(s, t) ==
    IF Len(s) < Len(t) THEN 0
    ELSE IF SubSeq(s, 1, Len(t)) = t
         THEN 1 + StrCount(SubSeq(s, Len(t) + 1, Len(s)), t)
         ELSE StrCount(Tail(s), t)

\* "\n".join(ls)
RECURSIVE Join(_)
Join(ls) ==
    IF Len(ls) = 0 THEN <<>>
    ELSE IF Len(ls) = 1 THEN ls[1]
    ELSE ls[1] \o <<NL>> \o Join(Tail(ls))

DocLen(ls) == Len(Join(ls))

\* ------------------------------------------------------- Buffer.__init__

\* Iterating a text file: each item runs up to and including its "\n".
RECURSIVE FileLines(_)
FileLines(c) ==
    IF c = <<>> THEN <<>>
    ELSE LET k == StrFind(c, <<NL>>, 0)
         IN IF k = -1 THEN <<c>>
            ELSE <<SubSeq(c, 1, k + 1)>> \o FileLines(SubSeq(c, k + 2, Len(c)))

\* line.rstrip('\n')
RECURSIVE RStripNL(_)
RStripNL(s) ==
    IF s # <<>> /\ s[Len(s)] = NL THEN RStripNL(SubSeq(s, 1, Len(s) - 1)) ELSE s

\* Mutant of LoadLines: an empty file is not replaced by one empty line.
LoadLinesRaw(content) ==
    [i \in 1..Len(FileLines(content)) |-> RStripNL(FileLines(content)[i])]

\* The lines of a buffer built from a file that exists.
LoadLines(content) ==
    LET read == [i \in 1..Len(FileLines(content)) |-> RStripNL(FileLines(content)[i])]
    IN IF read = <<>> THEN << <<>> >> ELSE read

VARIABLES
    lines,       \* Buffer.lines
    filename,    \* Buffer.filename; <<>> stands for None and for ""
    modified,    \* Buffer.modified
    readonly,    \* Buffer.readonly
    cy, cx,      \* Editor.cy, Editor.cx: cursor row and column
    top, left,   \* Editor.top, Editor.left: viewport offsets
    msg,         \* Editor.msg
    h, w,        \* stdscr.getmaxyx()
    \* Observers: no handler reads them. Each is driven in the one
    \* specification that checks against it and pinned in the others.
    savedLines,  \* the lines at load or at the last successful save
    refDoc,      \* the reference string model's document
    refOff,      \* the reference string model's cursor offset
    hist,        \* the last editing keys and the state they started from
    \* The rest of the program's state, left alone by the handlers above
    \* the quit keys and by every handler but save().
    pc,          \* where Editor.run is: in its loop, or how it was left
    disk         \* the text of the file named Buffer.filename

vars == <<lines, filename, modified, readonly, cy, cx, top, left, msg, h, w,
          savedLines, refDoc, refOff, hist, pc, disk>>


\* ---------------------------------------------------------------- helpers

Line(y) == lines[y + 1]

\* The messages Editor.run and Buffer.save leave in Editor.msg.
MsgStart == <<"ProText 0.1 (Ctrl-S save, Ctrl-C quit)">>
MsgSaved == <<"Saved">>
MsgReadOnly == <<"File is read-only">>
MsgNoFilename == <<"No filename">>
MsgSaveError == <<"str(e)">>
MsgSaveCancelled == <<"Save cancelled">>
MsgFound == <<"Found">>
MsgNotFound == <<"not found">>
MsgReplaceCancelled == <<"Replace cancelled">>
MsgReplaced(count) == <<"Replaced", count>>

\* What prompt_input can return: None, "" or a typed string.
PromptResults == {None, <<>>} \cup Terms
ReplaceResults == {None} \cup Replacements
FileNameResults == {None, <<>>, <<"g">>}
Answers == {None, <<"Y">>, <<"n">>}

\* Python truth of a prompt result: None and "" are false.
Truthy(s) == s # None /\ s # <<>>

\* Mutant of StartsWithY: any answer that is not empty counts as yes.
StartsWithAnything(ans) == Len(ans) > 0

\* ans.lower().startswith('y')
Lower(c) == IF c = "Y" THEN "y" ELSE c
StartsWithY(ans) == Len(ans) > 0 /\ Lower(ans[1]) = "y"

\* -------------------------------------------- Editor.ensure_cursor_visible

\* Mutant of EnsureTop: scrolling down stops one row short.
EnsureTopShort(r, t, height) ==
    IF r < t THEN r
    ELSE IF r >= t + (height - 1) THEN r - (height - 1)
    ELSE t

\* The new Editor.top for cursor row r, old top t and terminal height.
EnsureTop(r, t, height) ==
    IF r < t THEN r
    ELSE IF r >= t + (height - 1) THEN r - (height - 1) + 1
    ELSE t

\* The new Editor.left for cursor column c, old left l and terminal width.
EnsureLeft(c, l, width) ==
    IF c < l THEN c
    ELSE IF c >= l + width - 1 THEN c - width + 2
    ELSE l

\* ensure_cursor_visible() run on the cursor this step leaves.
ensure_cursor_visible ==
    /\ top' = EnsureTop(cy', top, h)
    /\ left' = EnsureLeft(cx', left, w)

\* ------------------------------------------- the reference string model
\* (the naive model of the editing operations: one string, one offset)

RECURSIVE Offset(_, _, _)
Offset(ls, y, x) ==
    IF y = 0 THEN x ELSE Len(ls[1]) + 1 + Offset(Tail(ls), y - 1, x)

CursorValid(ls, y, x) ==
    /\ 0 <= y /\ y < Len(ls)
    /\ 0 <= x /\ x <= Len(ls[y + 1])

\* doc.split("\n")
RECURSIVE SplitDoc(_)
SplitDoc(doc) ==
    LET k == StrFind(doc, <<NL>>, 0)
    IN IF k = -1 THEN <<doc>>
       ELSE <<SubSeq(doc, 1, k)>> \o SplitDoc(SubSeq(doc, k + 2, Len(doc)))

\* A cursor key starts a new reference run from the state it leaves.
RefRestart ==
    /\ refDoc' = Join(lines')
    /\ refOff' = Offset(lines', cy', cx')

\* doc[:off] + c + doc[off:], and the offset moves past c.
RefInsert(c) ==
    /\ refDoc' = SubSeq(refDoc, 1, refOff) \o <<c>>
                    \o SubSeq(refDoc, refOff + 1, Len(refDoc))
    /\ refOff' = refOff + 1

\* The character before the offset is removed, when there is one.
RefBackspace ==
    IF refOff = 0 THEN UNCHANGED <<refDoc, refOff>>
    ELSE /\ refDoc' = SubSeq(refDoc, 1, refOff - 1)
                        \o SubSeq(refDoc, refOff + 1, Len(refDoc))
         /\ refOff' = refOff - 1

\* The character at the offset is removed, when there is one.
RefDelete ==
    IF refOff = Len(refDoc) THEN UNCHANGED <<refDoc, refOff>>
    ELSE /\ refDoc' = SubSeq(refDoc, 1, refOff)
                        \o SubSeq(refDoc, refOff + 2, Len(refDoc))
         /\ refOff' = refOff

\* ------------------------------------------------------------------ Init

\* Buffer(args.file) and Editor(stdscr, buf) for a file named on the command
\* line (or none), that exists or not, with the given content and permission,
\* on a terminal of one of the given sizes.
InitWith(contents, heights, widths) ==
    \E arg \in {<<>>, <<"f">>}, exists \in BOOLEAN, writable \in BOOLEAN,
       content \in contents :
        /\ filename = arg
        /\ lines = IF arg # <<>> /\ exists THEN LoadLines(content) ELSE << <<>> >>
        /\ modified = FALSE
        /\ readonly = (arg # <<>> /\ exists /\ ~writable)
        /\ cy = 0 /\ cx = 0 /\ top = 0 /\ left = 0
        /\ msg = MsgStart
        /\ h \in heights /\ w \in widths

\* The observers when nothing is checked against them.
NoSaved == savedLines = <<>>
NoRef == refDoc = <<>> /\ refOff = 0
NoHist == hist = <<>>

\* Editor.run is in its loop; the file is not looked at.
Looping == pc = "loop"
NoDisk == disk = <<>>
NoAux == NoHist /\ Looping /\ NoDisk

\* A start on a file name that can be written.
InitFile == InitWith(FileContents, Heights, Widths) /\ filename # <<>> /\ ~readonly

Init == InitFile /\ NoSaved /\ NoRef /\ NoAux

\* ------------------------------------------------------------ navigation

move_left ==
    /\ IF cx > 0 THEN cx' = cx - 1 /\ cy' = cy
       ELSE IF cy > 0 THEN cy' = cy - 1 /\ cx' = Len(Line(cy - 1))
       ELSE UNCHANGED <<cy, cx>>
    /\ ensure_cursor_visible
    /\ UNCHANGED <<lines, filename, modified, readonly, msg, h, w>>

move_right ==
    /\ IF cx < Len(Line(cy)) THEN cx' = cx + 1 /\ cy' = cy
       ELSE IF cy < Len(lines) - 1 THEN cy' = cy + 1 /\ cx' = 0
       ELSE UNCHANGED <<cy, cx>>
    /\ ensure_cursor_visible
    /\ UNCHANGED <<lines, filename, modified, readonly, msg, h, w>>

move_up ==
    /\ IF cy > 0 THEN cy' = cy - 1 /\ cx' = Min(cx, Len(Line(cy - 1)))
       ELSE UNCHANGED <<cy, cx>>
    /\ ensure_cursor_visible
    /\ UNCHANGED <<lines, filename, modified, readonly, msg, h, w>>

move_down ==
    /\ IF cy < Len(lines) - 1
       THEN cy' = cy + 1 /\ cx' = Min(cx, Len(Line(cy + 1)))
       ELSE UNCHANGED <<cy, cx>>
    /\ ensure_cursor_visible
    /\ UNCHANGED <<lines, filename, modified, readonly, msg, h, w>>

\* KEY_HOME and KEY_END: the column is set and nothing else runs.
key_home ==
    /\ cx' = 0
    /\ UNCHANGED <<lines, filename, modified, readonly, cy, top, left, msg, h, w>>

key_end ==
    /\ cx' = Len(Line(cy))
    /\ UNCHANGED <<lines, filename, modified, readonly, cy, top, left, msg, h, w>>

\* Mutant of PageRow: Page Down is not clamped to the last line.
PageRowUnclamped(row, up, n, height) ==
    IF up THEN Max(0, row - (height - 2)) ELSE row + (height - 2)

\* The row KEY_PPAGE (up) or KEY_NPAGE leaves, for n lines.
PageRow(row, up, n, height) ==
    IF up THEN Max(0, row - (height - 2)) ELSE Min(n - 1, row + (height - 2))

key_page(up) ==
    /\ cy' = PageRow(cy, up, Len(lines), h)
    /\ cx' = cx
    /\ ensure_cursor_visible
    /\ UNCHANGED <<lines, filename, modified, readonly, msg, h, w>>


\* --------------------------------------------------------------- editing

\* Mutant of CharInserted: the character goes in after the one at x.
CharInsertedAfter(line, x, ch) ==
    SliceTo(line, x + 1) \o <<ch>> \o SliceFrom(line, x + 1)

\* line[:x] + ch + line[x:]
CharInserted(line, x, ch) == SliceTo(line, x) \o <<ch>> \o SliceFrom(line, x)

\* line[:x] + line[x + 1:]
CharRemoved(line, x) == SliceTo(line, x) \o SliceFrom(line, x + 1)

\* A printable character other than q and Q. The guards are the model's
\* bounds, not the program's: on the document, and on a column that a cursor
\* past the end of its line would otherwise let grow without limit.
insert_char(ch) ==
    /\ DocLen(lines) < MaxDoc
    /\ cx <= MaxDoc
    /\ lines' = SetLine(lines, cy, CharInserted(Line(cy), cx, ch))
    /\ cx' = cx + 1
    /\ modified' = TRUE
    /\ UNCHANGED <<filename, readonly, cy, top, left, msg, h, w>>

\* Mutant of backspace: joining two lines leaves the cursor in column 0.
backspace_to_column_0 ==
    /\ IF cx > 0
       THEN /\ lines' = SetLine(lines, cy, CharRemoved(Line(cy), cx - 1))
            /\ cx' = cx - 1
            /\ modified' = TRUE
            /\ UNCHANGED <<cy, top, left>>
       ELSE IF cy > 0
       THEN /\ cy' = cy - 1
            /\ cx' = 0
            /\ lines' = SetLine(ListPop(lines, cy), cy - 1,
                                Line(cy - 1) \o Line(cy))
            /\ modified' = TRUE
            /\ ensure_cursor_visible
       ELSE UNCHANGED <<lines, cy, cx, modified, top, left>>
    /\ UNCHANGED <<filename, readonly, msg, h, w>>

backspace ==
    /\ IF cx > 0
       THEN /\ lines' = SetLine(lines, cy, CharRemoved(Line(cy), cx - 1))
            /\ cx' = cx - 1
            /\ modified' = TRUE
            /\ UNCHANGED <<cy, top, left>>
       ELSE IF cy > 0
       THEN /\ cy' = cy - 1
            /\ cx' = Len(Line(cy - 1))
            /\ lines' = SetLine(ListPop(lines, cy), cy - 1,
                                Line(cy - 1) \o Line(cy))
            /\ modified' = TRUE
            /\ ensure_cursor_visible
       ELSE UNCHANGED <<lines, cy, cx, modified, top, left>>
    /\ UNCHANGED <<filename, readonly, msg, h, w>>

\* insert_newline() itself.
InsertNewline ==
    /\ lines' = ListInsert(SetLine(lines, cy, SliceTo(Line(cy), cx)), cy + 1,
                           SliceFrom(Line(cy), cx))
    /\ cy' = cy + 1
    /\ cx' = 0
    /\ modified' = TRUE
    /\ ensure_cursor_visible
    /\ UNCHANGED <<filename, readonly, msg, h, w>>

\* Enter, within the model's bound on the document.
insert_newline == DocLen(lines) < MaxDoc /\ InsertNewline

\* Mutant of delete_char: the buffer is marked even when nothing is deleted.
delete_char_marks ==
    /\ IF cx < Len(Line(cy))
       THEN lines' = SetLine(lines, cy, CharRemoved(Line(cy), cx))
       ELSE IF cy < Len(lines) - 1
       THEN lines' = SetLine(ListPop(lines, cy + 1), cy, Line(cy) \o Line(cy + 1))
       ELSE lines' = lines
    /\ modified' = TRUE
    /\ UNCHANGED <<filename, readonly, cy, cx, top, left, msg, h, w>>

\* The lines and the cursor insert_newline() leaves, called at (y, x) of ls.
NewlineResult(ls, y, x) ==
    <<ListInsert(SetLine(ls, y, SliceTo(ls[y + 1], x)), y + 1,
                 SliceFrom(ls[y + 1], x)),
      y + 1, 0>>

\* The lines and the cursor backspace() leaves, called at (y, x) of ls.
BackspaceResult(ls, y, x) ==
    IF x > 0 THEN <<SetLine(ls, y, CharRemoved(ls[y + 1], x - 1)), y, x - 1>>
    ELSE IF y > 0
    THEN <<SetLine(ListPop(ls, y), y - 1, ls[y] \o ls[y + 1]), y - 1, Len(ls[y])>>
    ELSE <<ls, y, x>>

delete_char ==
    /\ IF cx < Len(Line(cy))
       THEN /\ lines' = SetLine(lines, cy, CharRemoved(Line(cy), cx))
            /\ modified' = TRUE
       ELSE IF cy < Len(lines) - 1
       THEN /\ lines' = SetLine(ListPop(lines, cy + 1), cy,
                                Line(cy) \o Line(cy + 1))
            /\ modified' = TRUE
       ELSE UNCHANGED <<lines, modified>>
    /\ UNCHANGED <<filename, readonly, cy, cx, top, left, msg, h, w>>

\* ------------------------------------------------------------ Editor.find

NoMatch == <<-1, -1>>

\* The first loop: rows y .. last, from column col on row `row`, else from 0.
RECURSIVE FindForward(_, _, _, _, _)
FindForward(ls, term, y, row, col) ==
    IF y >= Len(ls) THEN NoMatch
    ELSE LET x == StrFind(ls[y + 1], term, IF y = row THEN col ELSE 0)
         IN IF x # -1 THEN <<y, x>> ELSE FindForward(ls, term, y + 1, row, col)

\* The second loop: rows y .. row - 1, each from column 0.
RECURSIVE FindWrapped(_, _, _, _)
FindWrapped(ls, term, y, row) ==
    IF y >= row THEN NoMatch
    ELSE LET x == StrFind(ls[y + 1], term, 0)
         IN IF x # -1 THEN <<y, x>> ELSE FindWrapped(ls, term, y + 1, row)

\* Mutant of FindPos: the start row is searched from column 0.
FindPosFromLineStart(ls, term, row, col) ==
    LET fwd == FindForward(ls, term, row, row, 0)
    IN IF fwd # NoMatch THEN fwd ELSE FindWrapped(ls, term, 0, row)

\* Mutant of FindPos: a search that fails lands on the start of the buffer.
FindPosOrOrigin(ls, term, row, col) ==
    LET fwd == FindForward(ls, term, row, row, col)
        wrapped == FindWrapped(ls, term, 0, row)
    IN IF fwd # NoMatch THEN fwd
       ELSE IF wrapped # NoMatch THEN wrapped
       ELSE <<0, 0>>

\* Where find(term) puts the cursor, or NoMatch when it returns False.
FindPos(ls, term, row, col) ==
    LET fwd == FindForward(ls, term, row, row, col)
    IN IF fwd # NoMatch THEN fwd ELSE FindWrapped(ls, term, 0, row)

\* Ctrl-F: the prompt returned `term`.
ctrl_f(term) ==
    /\ IF ~Truthy(term)
       THEN UNCHANGED <<cy, cx, top, left, msg>>
       ELSE LET pos == FindPos(lines, term, cy, cx)
            IN IF pos # NoMatch
               THEN /\ cy' = pos[1]
                    /\ cx' = pos[2]
                    /\ ensure_cursor_visible
                    /\ msg' = MsgFound
               ELSE /\ msg' = MsgNotFound
                    /\ UNCHANGED <<cy, cx, top, left>>
    /\ UNCHANGED <<lines, filename, modified, readonly, h, w>>

\* ----------------------------------------------------- Editor.replace_all

ReplacedLines(ls, find_term, replace_term) ==
    [i \in 1..Len(ls) |->
        IF StrIn(find_term, ls[i]) THEN StrReplace(ls[i], find_term, replace_term)
        ELSE ls[i]]

RECURSIVE ReplaceCount(_, _)
ReplaceCount(ls, find_term) ==
    IF ls = <<>> THEN 0
    ELSE (IF StrIn(find_term, Head(ls)) THEN StrCount(Head(ls), find_term) ELSE 0)
         + ReplaceCount(Tail(ls), find_term)

\* Mutant of ReplaceModified: replace_all never marks the buffer.
ReplaceModifiedKept(count, old) == old

\* Buffer.modified after replace_all counted `count` occurrences.
ReplaceModified(count, old) == IF count > 0 THEN TRUE ELSE old

\* replace_all(find_term, replace_term) called on its own; it returns
\* ReplaceCount(lines, find_term). The guard is the model's bound.
replace_all(find_term, replace_term) ==
    /\ DocLen(ReplacedLines(lines, find_term, replace_term)) <= MaxReplaced
    /\ lines' = ReplacedLines(lines, find_term, replace_term)
    /\ modified' = ReplaceModified(ReplaceCount(lines, find_term), modified)
    /\ UNCHANGED <<filename, readonly, cy, cx, top, left, msg, h, w>>

\* Ctrl-R: the three prompts returned find_term, replace_term and ans (the
\* later prompts are not shown when an earlier one ends the command).
ctrl_r(find_term, replace_term, ans) ==
    /\ IF ~Truthy(find_term)
       THEN UNCHANGED <<lines, modified, msg>>
       ELSE IF replace_term = None
       THEN /\ msg' = MsgReplaceCancelled
            /\ UNCHANGED <<lines, modified>>
       ELSE IF Truthy(ans) /\ StartsWithY(ans)
       THEN /\ DocLen(ReplacedLines(lines, find_term, replace_term)) <= MaxDoc
            /\ lines' = ReplacedLines(lines, find_term, replace_term)
            /\ modified' = ReplaceModified(ReplaceCount(lines, find_term), modified)
            /\ msg' = MsgReplaced(ReplaceCount(lines, find_term))
       ELSE /\ msg' = MsgReplaceCancelled
            /\ UNCHANGED <<lines, modified>>
    /\ UNCHANGED <<filename, readonly, cy, cx, top, left, h, w>>

\* ------------------------------------------------------------ Buffer.save

\* Mutant of SaveResult: the read-only flag is not looked at.
SaveResultWritesAnyway(fname, ro, ioOk) ==
    IF fname = <<>> THEN MsgNoFilename
    ELSE IF ioOk THEN MsgSaved
    ELSE MsgSaveError

\* What save() returns for this file name and flag; ioOk is whether the
\* write went through without an exception.
SaveResult(fname, ro, ioOk) ==
    IF fname = <<>> THEN MsgNoFilename
    ELSE IF ro THEN MsgReadOnly
    ELSE IF ioOk THEN MsgSaved
    ELSE MsgSaveError

\* What save() writes when nothing fails: every line and a "\n" after it.
RECURSIVE FileText(_)
FileText(ls) ==
    IF ls = <<>> THEN <<>> ELSE Head(ls) \o <<NL>> \o FileText(Tail(ls))

\* What the file can hold after save(): untouched when save() returns before
\* open(); the whole text when nothing fails; and when open() or a write
\* raises, the old text or any part of the new one that got out.
DiskAfter(fname, ro, ioOk, old, ls) ==
    IF fname = <<>> \/ ro THEN {old}
    ELSE IF ioOk THEN {FileText(ls)}
    ELSE {old} \cup {SubSeq(FileText(ls), 1, k) : k \in 0..Len(FileText(ls))}

\* ok, m = self.buf.save(); self.msg = m
save(ioOk) ==
    /\ msg' = SaveResult(filename, readonly, ioOk)
    /\ modified' = IF msg' = MsgSaved THEN FALSE ELSE modified
    /\ disk' \in DiskAfter(filename, readonly, ioOk, disk, lines)
    /\ UNCHANGED <<lines, filename, readonly, cy, cx, top, left, h, w>>

\* Ctrl-S: `fn` is what the "Save as:" prompt returned, shown only when the
\* buffer has no file name.
ctrl_s(fn, ioOk) ==
    /\ IF filename = <<>> /\ ~Truthy(fn)
       THEN /\ msg' = MsgSaveCancelled
            /\ UNCHANGED <<filename, modified>>
       ELSE /\ filename' = IF filename = <<>> THEN fn ELSE filename
            /\ msg' = SaveResult(filename', readonly, ioOk)
            /\ modified' = IF msg' = MsgSaved THEN FALSE ELSE modified
    /\ UNCHANGED <<lines, readonly, cy, cx, top, left, h, w>>

\* ---------------------------------------- prompt_input and confirm_prompt

\* Keys read by prompt_input that are not printable characters.
Enter == NL
Escape == "ESC"
Rubout == "DEL"
KeyLeft == "KEY_LEFT"
KeyRight == "KEY_RIGHT"

\* prompt_input has read all its keys and is still waiting.
Waiting == <<"waiting">>

\* The loop of prompt_input with the text buf, the position pos and the keys
\* still to come: the string at Enter, None at Escape.
RECURSIVE PromptLoop(_, _, _)
PromptLoop(buf, pos, keys) ==
    IF keys = <<>> THEN Waiting
    ELSE LET ch == Head(keys)
             rest == Tail(keys)
         IN IF ch = Enter THEN buf
            ELSE IF ch = Escape THEN None
            ELSE IF ch = Rubout
                 THEN IF pos > 0 THEN PromptLoop(ListPop(buf, pos - 1), pos - 1, rest)
                      ELSE PromptLoop(buf, pos, rest)
            ELSE IF ch = KeyLeft
                 THEN PromptLoop(buf, IF pos > 0 THEN pos - 1 ELSE pos, rest)
            ELSE IF ch = KeyRight
                 THEN PromptLoop(buf, IF pos < Len(buf) THEN pos + 1 ELSE pos, rest)
            ELSE PromptLoop(ListInsert(buf, pos, ch), pos + 1, rest)

\* prompt_input(prompt, initial) reading keys.
prompt_input(initial, keys) == PromptLoop(initial, Len(initial), keys)

\* s.strip(), for the blank as the only white space typed.
RECURSIVE Strip(_)
Strip(s) ==
    IF s # <<>> /\ Head(s) = " " THEN Strip(Tail(s))
    ELSE IF s # <<>> /\ s[Len(s)] = " " THEN Strip(SubSeq(s, 1, Len(s) - 1))
    ELSE s

\* confirm_prompt(prompt) reading keys.
confirm_prompt(keys) ==
    LET ans == prompt_input(<<"n">>, keys)
    IN IF ans = None THEN FALSE ELSE StartsWithY(Strip(ans))

\* What the user types at a confirmation: an answer and Enter, or Escape ...
PlainAnswers == {<<"y", Enter>>, <<"n", Enter>>, <<Enter>>, <<Escape>>}
\* ... or the same after editing the text the prompt shows.
ConfirmKeys ==
    PlainAnswers \cup {<<Rubout, "y", Enter>>, <<KeyLeft, "y", Enter>>,
                       <<Rubout, " ", "Y", Enter>>}

\* ------------------------------------------------------- leaving the loop

MsgExitCancelled == <<"Exit cancelled">>
MsgQuitCancelled == <<"Quit cancelled">>

\* Ctrl-Q: the confirmation reads keys.
ctrl_q(keys) ==
    /\ IF confirm_prompt(keys)
       THEN pc' = "break" /\ msg' = msg
       ELSE /\ pc' = pc
            /\ msg' = IF modified THEN MsgExitCancelled ELSE MsgQuitCancelled
    /\ UNCHANGED <<lines, filename, modified, readonly, cy, cx, top, left, h, w>>

\* q or Q: the confirmation is shown only for a modified buffer.
key_q(keys) ==
    /\ IF modified
       THEN IF confirm_prompt(keys)
            THEN pc' = "break" /\ msg' = msg
            ELSE pc' = pc /\ msg' = MsgExitCancelled
       ELSE pc' = "break" /\ msg' = msg
    /\ UNCHANGED <<lines, filename, modified, readonly, cy, cx, top, left, h, w>>

\* Ctrl-C: raise KeyboardInterrupt(), which main catches and passes.
ctrl_c ==
    /\ pc' = "KeyboardInterrupt"
    /\ UNCHANGED <<lines, filename, modified, readonly, cy, cx, top, left, msg, h, w>>

\* The characters with ord(ch) >= 32 that are typed.
Printable == Chars \cup {"q", "Q"}

\* A printable character ch read by the loop: the branch for q and Q comes
\* before the one that inserts.
key_printable(ch, keys) ==
    IF ch \in {"q", "Q"} THEN key_q(keys)
    ELSE insert_char(ch) /\ pc' = pc

\* ------------------------------------------------------------- Editor.run

obs == <<savedLines, refDoc, refOff>>
aux == <<hist, pc, disk>>

\* The arrow keys, Home and End.
ArrowKeys ==
    \/ move_left
    \/ move_right
    \/ move_up
    \/ move_down
    \/ key_home
    \/ key_end

PageKeys == \E up \in BOOLEAN : key_page(up)

\* Printable characters, Backspace, Enter and Delete.
EditKeys ==
    \/ \E ch \in Chars : insert_char(ch)
    \/ backspace
    \/ insert_newline
    \/ delete_char

FindKey == \E term \in PromptResults : ctrl_f(term)

\* A prompt is shown only when the ones before it let the command go on.
ReplaceKey ==
    \E find_term \in PromptResults :
        IF ~Truthy(find_term) THEN ctrl_r(find_term, None, None)
        ELSE \E replace_term \in ReplaceResults :
            IF replace_term = None THEN ctrl_r(find_term, None, None)
            ELSE \E ans \in Answers : ctrl_r(find_term, replace_term, ans)

SaveKey == \E fn \in FileNameResults, ioOk \in BOOLEAN : ctrl_s(fn, ioOk)

\* One iteration of the loop of Editor.run on a key that moves the cursor or
\* changes the text. Ctrl-S is left to SpecSave: it writes filename,
\* modified and msg only, and no handler here reads them or readonly, so the
\* start is not varied in them either.
Next ==
    /\ ArrowKeys \/ PageKeys \/ EditKeys \/ FindKey \/ ReplaceKey
    /\ UNCHANGED <<obs, aux>>

Spec == Init /\ [][Next]_vars

\* The loop with Ctrl-S, from every start of the program, on a terminal that
\* shows the whole document (the viewport and the terminal size are read by
\* no handler that changes the text). savedLines follows the saves that
\* succeed.
InitSave ==
    /\ InitWith(FileContents, {MaxDoc + 2}, {MaxDoc + 3})
    /\ savedLines = lines
    /\ NoRef /\ NoAux

NextSave ==
    \/ (ArrowKeys \/ PageKeys \/ EditKeys \/ ReplaceKey) /\ UNCHANGED <<obs, aux>>
    \/ /\ SaveKey
       /\ savedLines' = IF msg' = MsgSaved THEN lines ELSE savedLines
       /\ UNCHANGED <<refDoc, refOff, aux>>

SpecSave == InitSave /\ [][NextSave]_vars

\* Searching a loaded file: the cursor keys and Ctrl-F, no edits.
InitFind ==
    /\ InitWith(FindContents, Heights, Widths)
    /\ filename # <<>> /\ ~readonly
    /\ NoSaved /\ NoRef /\ NoAux

NextFind ==
    /\ ArrowKeys \/ PageKeys \/ \E term \in FindTerms : ctrl_f(term)
    /\ UNCHANGED <<obs, aux>>

SpecFind == InitFind /\ [][NextFind]_vars

\* The editing operations run beside the reference string model: an arrow
\* key chooses where the next run of operations starts.
InitEdit == InitFile /\ NoSaved /\ NoAux /\ refDoc = Join(lines) /\ refOff = 0

NextEdit ==
    \/ ArrowKeys /\ RefRestart /\ UNCHANGED <<savedLines, aux>>
    \/ \E ch \in Chars : insert_char(ch) /\ RefInsert(ch) /\ UNCHANGED <<savedLines, aux>>
    \/ backspace /\ RefBackspace /\ UNCHANGED <<savedLines, aux>>
    \/ insert_newline /\ RefInsert(NL) /\ UNCHANGED <<savedLines, aux>>
    \/ delete_char /\ RefDelete /\ UNCHANGED <<savedLines, aux>>

SpecEdit == InitEdit /\ [][NextEdit]_vars

\* replace_all alone, on files that hold the search terms several times.
InitReplace ==
    /\ InitWith(ReplaceContents, {MaxH}, {MaxH})
    /\ filename # <<>> /\ ~readonly
    /\ NoSaved /\ NoRef /\ NoAux

NextReplace ==
    /\ \E find_term \in ReplaceFinds, replace_term \in ReplaceWiths :
           replace_all(find_term, replace_term)
    /\ UNCHANGED <<obs, aux>>

SpecReplace == InitReplace /\ [][NextReplace]_vars

\* save() called on every buffer the program can build, edited or not, with
\* the file it was built from: disk is None when there is no such file.
InitBuffer ==
    /\ InitWith(FileContents, {MaxDoc + 2}, {MaxDoc + 3})
    /\ disk \in FileContents \cup {None}
    /\ IF readonly THEN disk # None /\ lines = LoadLines(disk)
       ELSE IF filename = <<>> \/ disk = None THEN disk = None /\ lines = << <<>> >>
       ELSE lines = LoadLines(disk)
    /\ NoSaved /\ NoRef /\ NoHist /\ Looping

NextBuffer ==
    \/ EditKeys /\ UNCHANGED <<obs, aux>>
    \/ /\ \E ioOk \in BOOLEAN : save(ioOk)
       /\ UNCHANGED <<obs, hist, pc>>

SpecBuffer == InitBuffer /\ [][NextBuffer]_vars

\* A session of edits and Ctrl-S from every start of the program, by a user
\* who keeps pressing keys and who saves under a name whenever a save can
\* succeed.
InitRecover ==
    /\ InitWith(FileContents, {MaxDoc + 2}, {MaxDoc + 3})
    /\ NoSaved /\ NoRef /\ NoAux

NextRecover ==
    /\ EditKeys \/ SaveKey
    /\ UNCHANGED <<obs, aux>>

\* A Ctrl-S that saves.
SaveSucceeds == NextRecover /\ SaveKey /\ msg' = MsgSaved

SpecRecover ==
    /\ InitRecover
    /\ [][NextRecover]_vars
    /\ WF_vars(NextRecover)
    /\ SF_vars(SaveSucceeds)

\* The loop with the keys that leave it. Nothing runs once it is left.
InitQuit == InitFile /\ NoSaved /\ NoRef /\ NoAux

NextQuit ==
    /\ Looping
    /\ \/ (backspace \/ insert_newline \/ delete_char) /\ pc' = pc
       \/ \E ch \in Printable, keys \in ConfirmKeys : key_printable(ch, keys)
       \/ \E keys \in ConfirmKeys : ctrl_q(keys)
       \/ ctrl_c
    /\ UNCHANGED <<obs, hist, disk>>

SpecQuit == InitQuit /\ [][NextQuit]_vars

\* The editing keys with hist following them: a newline typed at a valid
\* cursor is remembered with the lines and the cursor it started from, a
\* backspace right after it turns that into "undone", and otherwise the
\* last key is remembered when it was Backspace or Delete.
InitUndo ==
    /\ InitWith(FileContents \cup UndoContents, {MaxH}, {MaxH})
    /\ filename # <<>> /\ ~readonly
    /\ NoSaved /\ NoRef /\ NoAux

NextUndo ==
    /\ \/ (ArrowKeys \/ PageKeys) /\ hist' = <<>>
       \/ \E ch \in Chars : insert_char(ch) /\ hist' = <<>>
       \/ /\ DocLen(lines) <= MaxUndoDoc
          /\ InsertNewline
          /\ hist' = IF CursorValid(lines, cy, cx)
                     THEN <<"newline", lines, cy, cx>> ELSE <<>>
       \/ /\ backspace
          /\ hist' = IF Len(hist) = 4 /\ hist[1] = "newline"
                     THEN <<"undone", hist[2], hist[3], hist[4]>>
                     ELSE <<"backspace">>
       \/ delete_char /\ hist' = <<"delete">>
    /\ UNCHANGED <<obs, pc, disk>>

SpecUndo == InitUndo /\ [][NextUndo]_vars


\* ================================================================ claims

\* C1: in every reachable state the cursor column lies within its line,
\* 0 <= cx <= len(lines[cy]).
C1_CursorColInRange == 0 <= cx /\ cx <= Len(Line(cy))

\* C2: in every reachable state (terminal of at least 2 rows) the cursor row
\* indexes a line, 0 <= cy < len(lines).
C2_CursorRowInRange == 0 <= cy /\ cy < Len(lines)

\* The cursor is on the last row, below the first, in a column its line does
\* not have, and no find, replace or save has run: no arrow key and no edit
\* leaves such a column, so Page Down put the cursor there.
C2_PagedToLastRow ==
    /\ msg = MsgStart
    /\ cy = Len(lines) - 1 /\ cy > 0
    /\ cx > Len(Line(cy))

\* C3: the buffer always holds at least one line.
C3_LinesNeverEmpty == Len(lines) >= 1

\* A file of several lines was loaded and edited down to one empty line.
C3_EmptiedBuffer ==
    /\ modified
    /\ Len(savedLines) > 1
    /\ lines = << <<>> >>

\* C4: after every key the cursor lies inside the visible text rectangle.
C4_CursorInViewport ==
    /\ top <= cy /\ cy < top + (h - 1)
    /\ left <= cx /\ cx < left + (w - 1)

\* C5: for a terminal of H >= 2 rows the cursor row r is always inside the
\* text rows, top <= r <= top + H - 2, and top >= 0.
C5_RowVisible ==
    /\ top >= 0
    /\ top <= cy
    /\ cy <= top + h - 2

\* The viewport has scrolled down and the cursor is on its last text row.
C5_ScrolledDown == top > 0 /\ cy = top + h - 2

\* C6: after every run of insert, newline, backspace and delete from a valid
\* cursor, the lines are those of the reference string model split at its
\* newlines (same count, same contents).
C6_MatchesReference == lines = SplitDoc(refDoc)

\* Edits have run and left a document of several lines that fills the bound.
C6_EditedDocument ==
    /\ modified
    /\ Len(lines) >= 2
    /\ DocLen(lines) = MaxDoc

\* C7: whenever the lines differ from those at load or at the last successful
\* save, modified is true; and a save that succeeds leaves modified false.
C7_ModifiedTracksChanges ==
    /\ lines # savedLines => modified
    /\ [][/\ lines' # savedLines' => modified'
          /\ (SaveKey /\ msg' = MsgSaved) => ~modified']_vars

\* The editor was started without a file, so with one empty line; edits made
\* a document of MaxDoc characters, Ctrl-S asked for the name and the save
\* succeeded, and nothing has changed the text since.
C7_SavedAfterEdit ==
    /\ filename = <<"g">>
    /\ msg = MsgSaved
    /\ ~modified
    /\ lines = savedLines
    /\ DocLen(lines) = MaxDoc

\* C8: an editing operation that leaves the lines unchanged leaves modified
\* unchanged.
C8_NoChangeNoModified ==
    [][EditKeys => (lines' = lines => modified' = modified)]_vars

\* C9: on lines ["ab", "cb"] with the cursor at (0, 1), where a find of "b"
\* has landed, the next find of "b" puts the cursor on row 1.
C9_RepeatedFindCycles ==
    (/\ lines = << <<"a", "b">>, <<"c", "b">> >>
     /\ cy = 0 /\ cx = 1
     /\ msg = MsgFound)
    => FindPos(lines, <<"b">>, cy, cx)[1] = 1

\* term occurs in line at column x.
Occurs(line, term, x) ==
    /\ x + Len(term) <= Len(line)
    /\ SubSeq(line, x + 1, x + Len(term)) = term

\* The matches a find from (row, col) may report: every occurrence but those
\* on row `row` that start before col.
Matches(term, row, col) ==
    {p \in (0..(Len(lines) - 1)) \X (0..MaxDoc) :
        /\ Occurs(Line(p[1]), term, p[2])
        /\ ~(p[1] = row /\ p[2] < col)}

\* p comes no later than q in the order: row `row`, the rows after it, then
\* the rows before it; by column within a row.
Before(p, q, row) ==
    LET turn(y) == IF y >= row THEN y - row ELSE y + Len(lines)
    IN \/ turn(p[1]) < turn(q[1])
       \/ p[1] = q[1] /\ p[2] <= q[2]

\* pos is the first of the matches from the cursor, or NoMatch without one.
FirstMatch(term, pos) ==
    IF Matches(term, cy, cx) = {} THEN pos = NoMatch
    ELSE /\ pos \in Matches(term, cy, cx)
         /\ \A q \in Matches(term, cy, cx) : Before(pos, q, cy)

Absent(term) ==
    \A y \in 0..(Len(lines) - 1), x \in 0..MaxDoc : ~Occurs(Line(y), term, x)

\* C11: a find of a term that occurs nowhere in the document leaves the
\* cursor, the viewport, the lines and modified unchanged and reports
\* not-found.
C11_FailedFindChangesNothing ==
    [][\A term \in Terms :
        (ctrl_f(term) /\ Absent(term)) =>
            /\ UNCHANGED <<cy, cx, top, left, lines, modified>>
            /\ msg' = MsgNotFound]_vars

\* A find has failed on an edited document of two lines with the cursor away
\* from the start of the buffer.
C11_NotFoundAwayFromStart ==
    /\ msg = MsgNotFound
    /\ modified
    /\ Len(lines) = 2
    /\ cy = 1

\* The starts of the occurrences of t that a scan of line from the left takes:
\* an occurrence is taken unless it overlaps one taken before it.
Taken(line, t) ==
    LET take[p \in 0..Len(line)] ==
            /\ Occurs(line, t, p)
            /\ \A q \in 0..(p - 1) : take[q] => q + Len(t) <= p
    IN {p \in 0..Len(line) : take[p]}

\* line with each taken occurrence of t given up for r, and nothing else
\* touched: r is not searched again.
Rebuilt(line, t, r) ==
    LET taken == Taken(line, t)
        piece(p) ==
            IF p \in taken THEN r
            ELSE IF \E q \in taken : q < p /\ p < q + Len(t) THEN <<>>
            ELSE <<line[p + 1]>>
        cat[p \in 0..Len(line)] ==
            IF p = Len(line) THEN <<>> ELSE piece(p) \o cat[p + 1]
    IN cat[0]

\* The number of occurrences taken in all the lines.
RECURSIVE TakenCount(_, _)
TakenCount(ls, t) ==
    IF ls = <<>> THEN 0
    ELSE Cardinality(Taken(Head(ls), t)) + TakenCount(Tail(ls), t)

\* C12: replace_all with a non-empty find term replaces in every line every
\* non-overlapping leftmost-first occurrence, without matching again in the
\* inserted text, returns the number of occurrences replaced in all lines,
\* and sets modified exactly when that number is not zero; on ["aaa", "xax"]
\* replacing "a" by "bb" returns 4 and gives ["bbbbbb", "xbbx"].
C12_ReplaceAllLeftmost ==
    /\ [](\A t \in ReplaceFinds, r \in ReplaceWiths :
            /\ ReplacedLines(lines, t, r)
                   = [i \in 1..Len(lines) |-> Rebuilt(lines[i], t, r)]
            /\ ReplaceCount(lines, t) = TakenCount(lines, t))
    /\ [](lines = << <<"a", "a", "a">>, <<"x", "a", "x">> >> =>
            /\ ReplaceCount(lines, <<"a">>) = 4
            /\ ReplacedLines(lines, <<"a">>, <<"b", "b">>)
                   = << <<"b", "b", "b", "b", "b", "b">>, <<"x", "b", "b", "x">> >>)
    /\ [][\A t \in ReplaceFinds, r \in ReplaceWiths :
            replace_all(t, r) =>
                /\ lines' = [i \in 1..Len(lines) |-> Rebuilt(lines[i], t, r)]
                /\ modified' = IF TakenCount(lines, t) > 0 THEN TRUE ELSE modified]_vars

\* replace_all has turned ["aaa", "xax"] into the lines of the example.
C12_ExampleReplaced ==
    /\ modified
    /\ lines = << <<"b", "b", "b", "b", "b", "b">>, <<"x", "b", "b", "x">> >>

\* C13: a save that fails leaves lines and modified unchanged; without a file
\* name save() fails with NoFilename and on a read-only buffer with ReadOnly,
\* both without writing to the file; only a save that wrote every line
\* succeeds and clears modified.
C13_FailedSaveKeepsState ==
    [][\A ioOk \in BOOLEAN :
        save(ioOk) =>
            /\ filename = <<>> => msg' = MsgNoFilename /\ disk' = disk
            /\ (filename # <<>> /\ readonly) => msg' = MsgReadOnly /\ disk' = disk
            /\ msg' # MsgSaved => UNCHANGED <<lines, modified>>
            /\ msg' = MsgSaved =>
                   ~modified' /\ lines' = lines /\ disk' = FileText(lines)
            /\ (modified /\ ~modified') =>
                   msg' = MsgSaved /\ disk' = FileText(lines)]_vars

\* save() was refused on a read-only buffer whose text had been edited.
C13_RefusedReadOnly ==
    /\ msg = MsgReadOnly
    /\ modified
    /\ disk # FileText(lines)

\* C14: after a save was rejected as read-only, the session can get to a
\* successful save of the buffer (by saving under a new path).
C14_ReadOnlyRecovers == (msg = MsgReadOnly) ~> (msg = MsgSaved)

\* What holds instead: no key changes the name or the flag of a read-only
\* buffer, so Ctrl-S never asks for a path and no save of it succeeds.
ReadOnlyStays ==
    [][readonly => readonly' /\ filename' = filename /\ msg' # MsgSaved]_vars

\* C15: the loop ends only through a quit that the user confirmed: no key
\* ends the session while the buffer is modified unless the confirmation was
\* answered with yes.
C15_ExitOnlyConfirmed ==
    [][(Looping /\ ~Looping' /\ modified) =>
        \E keys \in ConfirmKeys :
            /\ confirm_prompt(keys)
            /\ ctrl_q(keys) \/ key_q(keys)]_vars

\* C16: every printable character read by the loop is inserted into the
\* current line at the cursor, the column advances by 1 and the buffer is
\* marked modified.
C16_PrintableInserted ==
    [][\A ch \in Printable, keys \in ConfirmKeys :
        key_printable(ch, keys) =>
            /\ lines' = SetLine(lines, cy, SliceTo(Line(cy), cx) \o <<ch>>
                                               \o SliceFrom(Line(cy), cx))
            /\ cy' = cy
            /\ cx' = cx + 1
            /\ modified']_vars

\* C17: from any buffer and any valid cursor (row, k), a newline followed at
\* once by a backspace gives back the same lines (count and contents) with
\* the cursor at (row, k).
C17_NewlineBackspaceRestores ==
    /\ []((Len(hist) = 4 /\ hist[1] = "undone") =>
            lines = hist[2] /\ cy = hist[3] /\ cx = hist[4])
    /\ [](\A y \in 0..(Len(lines) - 1) : \A x \in 0..Len(Line(y)) :
            LET split == NewlineResult(lines, y, x)
            IN BackspaceResult(split[1], split[2], split[3]) = <<lines, y, x>>)
    /\ [][/\ InsertNewline => <<lines', cy', cx'>> = NewlineResult(lines, cy, cx)
          /\ backspace => <<lines', cy', cx'>> = BackspaceResult(lines, cy, cx)]_vars

\* A newline typed on the second of two lines, right after its first
\* character, has been undone by a backspace.
C17_SplitUndone ==
    /\ Len(hist) = 4 /\ hist[1] = "undone"
    /\ Len(lines) = 2
    /\ cy = 1 /\ cx = 1

\* C18: backspace with the cursor at (0, 0), and forward delete with the
\* cursor at the end of the last line, change nothing: lines, modified,
\* cursor and viewport are the same before and after.
C18_EdgeKeysAreNoOps ==
    [][/\ (backspace /\ cy = 0 /\ cx = 0) =>
              UNCHANGED <<lines, modified, cy, cx, top, left>>
       /\ (delete_char /\ cy = Len(lines) - 1 /\ cx = Len(Line(cy))) =>
              UNCHANGED <<lines, modified, cy, cx, top, left>>]_vars

\* Delete was the last key, pressed at the end of the last line of an
\* unmodified buffer of two lines.
C18_DeleteAtEnd ==
    /\ hist = <<"delete">>
    /\ ~modified
    /\ Len(lines) = 2
    /\ cy = 1 /\ cx = Len(Line(1)) /\ cx > 0

\* The three prompts of Ctrl-R all went through: a find term that is not
\* empty, a replacement that was not cancelled, an answer that starts with y.
AllPromptsPassed(find_term, replace_term, ans) ==
    /\ find_term \notin {None, <<>>}
    /\ replace_term # None
    /\ ans \notin {None, <<>>}
    /\ ans[1] \in {"y", "Y"}

\* C19: the replace command changes the buffer only after all three prompts
\* were completed in order; when a prompt is cancelled, the find term is
\* empty or the answer is not yes, lines, modified and the cursor are
\* unchanged.
C19_ReplaceNeedsAllPrompts ==
    [][\A find_term \in PromptResults, replace_term \in ReplaceResults,
          ans \in Answers :
        (~AllPromptsPassed(find_term, replace_term, ans)
            /\ ctrl_r(find_term, replace_term, ans)) =>
                UNCHANGED <<lines, modified, cy, cx>>]_vars

\* A replace was cancelled on an unmodified buffer that holds the term "a".
C19_CancelledWithMatches ==
    /\ msg = MsgReplaceCancelled
    /\ ~modified
    /\ ~Absent(<<"a">>)

\* A quit key whose confirmation prompt reads keys.
QuitAsked(keys) == ctrl_q(keys) \/ (modified /\ key_q(keys))

\* C20: at the quit confirmation, y followed by Enter is a yes and the
\* session ends; any other answer, or Escape, cancels the quit and the loop
\* goes on with the buffer unchanged.
C20_TypedYesQuits ==
    [][\A keys \in PlainAnswers :
        QuitAsked(keys) =>
            IF keys = <<"y", Enter>> THEN pc' = "break"
            ELSE Looping' /\ UNCHANGED <<lines, modified>>]_vars

====
